---- MODULE Spec2Model ----
(***************************************************************************)
(* lines-generator: a script that lays out fold-guide pages.  src/index.ts *)
(* holds two variants of the script: the quadrant variant (four sections   *)
(* per page, lines 1-228) and the full-page variant (one section per page, *)
(* lines 230-416).  The variable mode selects which of the two programs    *)
(* runs; it never changes during a run.                                    *)
(*                                                                         *)
(* Numbers: the script computes with IEEE doubles.  Coordinates are        *)
(* modelled as exact fractions <<numerator, denominator>>, compared by     *)
(* cross-multiplication, and configuration values as naturals.  Rounding   *)
(* of doubles is not modelled.                                             *)
(***************************************************************************)
EXTENDS Integers, Sequences, FiniteSets, TLC

VARIABLES
    mode,                 \* "quadrant" | "full": which variant of the script runs
    centerLines,          \* config.centerLines
    pc,                   \* position of the driver: "loop" | "range" | "done" | "failed"
    entryIndex,           \* position of the for-of loop in centerLines (1-based)
    numCenterLines,       \* the loop variable of the inner range loop
    currentSectionIndex,  \* closure state of createSectionDrawer
    currentPage,          \* closure state: 0 is undefined, p > 0 refers to pages[p]
    pages,                \* pdfDoc: the pages in allocation order, each with its draw calls
    calls,                \* history: the argument of every drawNextSection call
    sections,             \* history: the arguments of every drawSection call
    error                 \* "none" or the message of the thrown Error

vars == <<mode, centerLines, pc, entryIndex, numCenterLines, currentSectionIndex,
          currentPage, pages, calls, sections, error>>

-----------------------------------------------------------------------------
(* Bounds of the model *)

MaxEntries == 2
MaxNum == 3

\* The range loop of an entry with skipInterval = 0 and min <= max never ends; the
\* model follows such a loop for MaxCalls drawNextSection calls in all.  No
\* configuration whose loops all end makes more calls than that.
MaxCalls == MaxEntries * (MaxNum + 1)

-----------------------------------------------------------------------------
(* Program constants *)

pageHeight == 1054
pageWidth == 816

Undefined == 0

NoCaseError == "No case found for page section"
NoPageError == "Current page is undefined"

-----------------------------------------------------------------------------
(* Arithmetic on numbers, as exact fractions <<numerator, denominator>> *)

Num(n) == <<n, 1>>

RatAdd(a, b) == <<a[1] * b[2] + b[1] * a[2], a[2] * b[2]>>

RatSub(a, b) == <<a[1] * b[2] - b[1] * a[2], a[2] * b[2]>>

RatMul(a, b) == <<a[1] * b[1], a[2] * b[2]>>

RatDiv(a, b) == <<a[1] * b[2], a[2] * b[1]>>

\* The comparisons === and < of two numbers (all denominators are positive).
RatEq(a, b) == a[1] * b[2] = b[1] * a[2]

RatLess(a, b) == a[1] * b[2] < b[1] * a[2]

Half == RatDiv(Num(1), Num(2))

-----------------------------------------------------------------------------
(* drawSection *)

MountainDash == <<4, 2, 1, 2>>

ValleyDash == <<4, 1>>

CutDash == <<10, 10>>

LineSpacing(width, n) == RatDiv(width, Num(n + 1))

\* Mutant: the parity test inverted.
IsMountain_Odd(lineIndex) == lineIndex % 2 = 1

IsMountain(lineIndex) == lineIndex % 2 = 0

\* Mutant: the first line at the section's left edge (lineIndex instead of lineIndex + 1).
LineX_FromEdge(x, lineIndex, lineSpacing) == RatAdd(x, RatMul(Num(lineIndex), lineSpacing))

LineX(x, lineIndex, lineSpacing) == RatAdd(x, RatMul(Num(lineIndex + 1), lineSpacing))

FoldLine(x, y, height, lineSpacing, lineIndex) ==
    LET lineX == LineX(x, lineIndex, lineSpacing)
    IN  [dashArray |-> IF IsMountain(lineIndex) THEN MountainDash ELSE ValleyDash,
         start     |-> <<lineX, y>>,
         end       |-> <<lineX, RatAdd(y, height)>>,
         thickness |-> 0]

\* The page.drawLine calls of one drawSection call, in the order they are made.
DrawSection(x, y, width, height, n) ==
    [k \in 1..n |-> FoldLine(x, y, height, LineSpacing(width, n), k - 1)]

-----------------------------------------------------------------------------
(* createSectionedPage *)

DrawCutLine(startX, startY, endX, endY) ==
    [dashArray |-> CutDash,
     start     |-> <<startX, startY>>,
     end       |-> <<endX, endY>>,
     thickness |-> 0]

W == Num(pageWidth)
H == Num(pageHeight)
Zero == Num(0)
HalfW == RatDiv(W, Num(2))
HalfH == RatDiv(H, Num(2))

QuadrantCutLines ==
    << DrawCutLine(Half, Zero, Half, H),                              \* left border
       DrawCutLine(RatSub(W, Half), Zero, RatSub(W, Half), H),        \* right border
       DrawCutLine(Zero, H, W, H),                                    \* top border
       DrawCutLine(Zero, Zero, W, Zero),                              \* bottom border
       DrawCutLine(HalfW, Zero, HalfW, H),                            \* vertical middle
       DrawCutLine(Zero, HalfH, W, HalfH) >>                          \* horizontal centre

FullCutLines ==
    << DrawCutLine(Half, Zero, Half, H),                              \* left border
       DrawCutLine(RatSub(W, Half), Zero, RatSub(W, Half), H),        \* right border
       DrawCutLine(Zero, RatSub(H, Half), W, RatSub(H, Half)),        \* top border
       DrawCutLine(Zero, Zero, W, Zero),                              \* bottom border
       DrawCutLine(Zero, HalfH, W, HalfH) >>                          \* centre line

\* Mutant: the page is returned before its cut lines are drawn.
QuadrantCreateSectionedPage_NoCuts ==
    [width |-> W, height |-> H, ops |-> <<>>]

QuadrantCreateSectionedPage ==
    [width |-> W, height |-> H, ops |-> QuadrantCutLines]

\* Mutant: setSize called with height and width exchanged.
FullCreateSectionedPage_Swapped ==
    [width |-> H, height |-> W, ops |-> FullCutLines]

FullCreateSectionedPage ==
    [width |-> W, height |-> H, ops |-> FullCutLines]

-----------------------------------------------------------------------------
(* drawNextSection *)

\* The switch of the quadrant variant: the case taken for an index.
QuadrantCase(index) == index % 4

\* Mutant: the page is allocated in case 1 instead of case 0.
AllocatesPage_Late(c) == c = 1

\* Mutant: a page is allocated in case 2 as well.
AllocatesPage_Twice(c) == c = 0 \/ c = 2

\* case 0 is the only one that calls createSectionedPage.
AllocatesPage(c) == c = 0

\* Mutant: top and bottom exchanged ((0, 0) taken for the top-left of the page).
QuadrantSectionPos_Flipped(c) ==
    CASE c = 0 -> [x |-> Zero, y |-> Zero]
      [] c = 1 -> [x |-> HalfW, y |-> Zero]
      [] c = 2 -> [x |-> Zero, y |-> HalfH]
      [] c = 3 -> [x |-> HalfW, y |-> HalfH]

QuadrantSectionPos(c) ==
    CASE c = 0 -> [x |-> Zero, y |-> HalfH]
      [] c = 1 -> [x |-> HalfW, y |-> HalfH]
      [] c = 2 -> [x |-> Zero, y |-> Zero]
      [] c = 3 -> [x |-> HalfW, y |-> Zero]

NextSectionIndex(i) == i + 1

\* Mutant: the fold lines go to the document's first page.
TargetPage_First(page) == 1

\* The page the fold lines of a call go to, given the page reference after the switch.
TargetPage(page) == page

\* drawSection on page p of doc, with the record of the call appended to the history.
DrawOn(doc, p, x, y, width, height, n) ==
    /\ pages' = [doc EXCEPT ![p].ops = @ \o DrawSection(x, y, width, height, n)]
    /\ sections' = Append(sections,
                          [page |-> p, x |-> x, y |-> y, width |-> width,
                           height |-> height, numCenterLines |-> n,
                           from |-> Len(doc[p].ops)])

Throw(doc, page, msg) ==
    /\ error' = msg
    /\ pages' = doc
    /\ currentPage' = page
    /\ UNCHANGED <<sections, currentSectionIndex>>

QuadrantDrawNextSection(n) ==
    LET c    == QuadrantCase(currentSectionIndex)
        doc  == IF AllocatesPage(c) THEN Append(pages, QuadrantCreateSectionedPage) ELSE pages
        page == IF AllocatesPage(c) THEN Len(doc) ELSE currentPage
    IN  /\ calls' = Append(calls, n)
        /\ IF c \notin 0..3
             THEN Throw(pages, currentPage, NoCaseError)
             ELSE IF page = Undefined
                    THEN Throw(doc, page, NoPageError)
                    ELSE /\ DrawOn(doc, TargetPage(page), QuadrantSectionPos(c).x,
                                   QuadrantSectionPos(c).y,
                                   HalfW, HalfH, n)
                         /\ currentPage' = page
                         /\ currentSectionIndex' = NextSectionIndex(currentSectionIndex)
                         /\ UNCHANGED error

FullDrawNextSection(n) ==
    LET doc  == Append(pages, FullCreateSectionedPage)
        page == Len(doc)
    IN  /\ calls' = Append(calls, n)
        /\ IF page = Undefined
             THEN Throw(doc, page, NoPageError)
             ELSE /\ DrawOn(doc, TargetPage(page), Zero, Zero, W, H, n)
                  /\ currentPage' = page
                  /\ UNCHANGED <<currentSectionIndex, error>>

DrawNextSection(n) ==
    IF mode = "quadrant" THEN QuadrantDrawNextSection(n) ELSE FullDrawNextSection(n)

-----------------------------------------------------------------------------
(* The driver *)

IsFixed(e) == "numLines" \in DOMAIN e

\* Mutant: the loop test with < for <=.
RangeContinues_Strict(n, maxNumLines) == n < maxNumLines

RangeContinues(n, maxNumLines) == n <= maxNumLines

\* Mutant: the loop variable is not advanced.
RangeAdvance_Stuck(n, skipInterval) == n

RangeAdvance(n, skipInterval) == n + skipInterval

\* A fixed-count entry: one drawNextSection call, then the next entry.
DrawFixed ==
    /\ pc = "loop"
    /\ entryIndex <= Len(centerLines)
    /\ IsFixed(centerLines[entryIndex])
    /\ DrawNextSection(centerLines[entryIndex].numLines)
    /\ IF error' = "none"
         THEN pc' = "loop" /\ entryIndex' = entryIndex + 1
         ELSE pc' = "failed" /\ UNCHANGED entryIndex
    /\ UNCHANGED <<mode, centerLines, numCenterLines>>

\* A range entry: the initialisation of the inner loop.
EnterRange ==
    /\ pc = "loop"
    /\ entryIndex <= Len(centerLines)
    /\ ~IsFixed(centerLines[entryIndex])
    /\ numCenterLines' = centerLines[entryIndex].minNumLines
    /\ pc' = "range"
    /\ UNCHANGED <<mode, centerLines, entryIndex, currentSectionIndex, currentPage,
                   pages, calls, sections, error>>

\* One iteration of the inner loop: the test, the call and the increment.
RangeIter ==
    /\ pc = "range"
    /\ RangeContinues(numCenterLines, centerLines[entryIndex].maxNumLines)
    /\ Len(calls) < MaxCalls
    /\ DrawNextSection(numCenterLines)
    /\ IF error' = "none"
         THEN /\ pc' = "range"
              /\ numCenterLines' = RangeAdvance(numCenterLines,
                                                centerLines[entryIndex].skipInterval)
         ELSE pc' = "failed" /\ UNCHANGED numCenterLines
    /\ UNCHANGED <<mode, centerLines, entryIndex>>

\* The inner loop's test fails: on to the next entry.
RangeExit ==
    /\ pc = "range"
    /\ ~RangeContinues(numCenterLines, centerLines[entryIndex].maxNumLines)
    /\ pc' = "loop"
    /\ entryIndex' = entryIndex + 1
    /\ UNCHANGED <<mode, centerLines, numCenterLines, currentSectionIndex, currentPage,
                   pages, calls, sections, error>>

\* pdfDoc.save() and fs.writeFileSync, after the last entry.
Save ==
    /\ pc = "loop"
    /\ entryIndex > Len(centerLines)
    /\ pc' = "done"
    /\ UNCHANGED <<mode, centerLines, entryIndex, numCenterLines, currentSectionIndex,
                   currentPage, pages, calls, sections, error>>

-----------------------------------------------------------------------------
(* Configurations *)

FixedEntries == [numLines : 0..MaxNum]

\* Ranges that start at 0 or 1: with maxNumLines = 0 the latter is a range with min > max.
\* skipInterval 0 is a loop that makes no progress, 2 a range whose last value can fall
\* short of maxNumLines.
RangeEntries == [minNumLines : {0, 1}, maxNumLines : 0..MaxNum, skipInterval : {0, 1, 2}]

Configs == UNION {[1..k -> FixedEntries \cup RangeEntries] : k \in 0..MaxEntries}

Init ==
    /\ mode \in {"quadrant", "full"}
    /\ centerLines \in Configs
    /\ pc = "loop"
    /\ entryIndex = 1
    /\ numCenterLines = 0
    /\ currentSectionIndex = 0
    /\ currentPage = Undefined
    /\ pages = <<>>
    /\ calls = <<>>
    /\ sections = <<>>
    /\ error = "none"

Next == DrawFixed \/ EnterRange \/ RangeIter \/ RangeExit \/ Save

Spec == Init /\ [][Next]_vars

\* The script is sequential and every await resumes: a step that can be taken is taken.
FairSpec == Init /\ [][Next]_vars /\ WF_vars(Next)

-----------------------------------------------------------------------------
(* Vocabulary of the properties *)

IsPrefix(s, t) == Len(s) <= Len(t) /\ SubSeq(t, 1, Len(s)) = s

IsCut(op) == op.dashArray = <<10, 10>>

FoldOps(p) == {k \in 1..Len(pages[p].ops) : ~IsCut(pages[p].ops[k])}

CutOps(p) == {k \in 1..Len(pages[p].ops) : IsCut(pages[p].ops[k])}

HalfWidth == <<pageWidth, 2>>

HalfHeight == <<pageHeight, 2>>

\* Where the draw calls of section j end on its page: at the first call of the next
\* section drawn on the same page, or at the end of the page's content.
SectionEnd(j) ==
    IF j < Len(sections) /\ sections[j + 1].page = sections[j].page
      THEN sections[j + 1].from
      ELSE Len(pages[sections[j].page].ops)

\* The k-th (zero-based) draw call of section j.
SectionLine(j, k) == pages[sections[j].page].ops[sections[j].from + 1 + k]

\* A range loop that ends: it does not start, or every iteration moves towards the end.
RangeEnds(e) == e.minNumLines > e.maxNumLines \/ e.skipInterval >= 1

AllRangesEnd == \A i \in 1..Len(centerLines) : IsFixed(centerLines[i]) \/ RangeEnds(centerLines[i])

-----------------------------------------------------------------------------
(* C1 *)

\* The counts the claim gives for one range entry.  With skipInterval = 0 and
\* min <= max the claimed sequence min, min, ... has no end: it is cut at MaxCalls.
ClaimedRange(e) ==
    IF e.minNumLines > e.maxNumLines
      THEN <<>>
      ELSE LET len == IF e.skipInterval = 0
                        THEN MaxCalls
                        ELSE (e.maxNumLines - e.minNumLines) \div e.skipInterval + 1
           IN  [j \in 1..len |-> e.minNumLines + (j - 1) * e.skipInterval]

ClaimedCounts(e) == IF IsFixed(e) THEN <<e.numLines>> ELSE ClaimedRange(e)

RECURSIVE ClaimedExpansion(_)
ClaimedExpansion(cfg) ==
    IF cfg = <<>> THEN <<>> ELSE ClaimedCounts(Head(cfg)) \o ClaimedExpansion(Tail(cfg))

\* C1: the counts passed to drawNextSection are, in declaration order of the entries,
\* [numLines] for a fixed entry and [min, min+step, ...] up to the last value <= max for
\* a range entry, nothing for a range with min > max: at every moment the calls made
\* are a prefix of that sequence, at the top of the entry loop they are exactly the
\* expansion of the entries already processed, and at the end they are all of it.
C1_Expansion ==
    /\ IsPrefix(calls, ClaimedExpansion(centerLines))
    /\ pc = "loop" => calls = ClaimedExpansion(SubSeq(centerLines, 1, entryIndex - 1))
    /\ pc = "done" => calls = ClaimedExpansion(centerLines)

C1_Witness ==
    /\ pc = "done"
    /\ centerLines = << [minNumLines |-> 0, maxNumLines |-> 3, skipInterval |-> 2],
                        [numLines |-> 1] >>
    /\ calls = <<0, 2, 1>>

-----------------------------------------------------------------------------
(* C2 *)

ClaimedQuadrantOrigin(i) ==
    CASE i % 4 = 0 -> <<Zero, HalfHeight>>
      [] i % 4 = 1 -> <<HalfWidth, HalfHeight>>
      [] i % 4 = 2 -> <<Zero, Zero>>
      [] i % 4 = 3 -> <<HalfWidth, Zero>>

\* C2: in quadrant mode the i-th drawNextSection call (i from 0) allocates a page iff
\* i mod 4 = 0, so after n sections there are ceil(n/4) pages and section i is on page
\* i div 4 + 1; it is drawn into the half-width by half-height region whose origin is
\* (0, H/2), (W/2, H/2), (0, 0), (W/2, 0) for i mod 4 = 0, 1, 2, 3.
C2_QuadrantPlacement ==
    mode = "quadrant" =>
      /\ Len(sections) = Len(calls)
      /\ Len(pages) = (Len(sections) + 3) \div 4
      /\ \A j \in 1..Len(sections) :
           LET s == sections[j]
               i == j - 1
           IN  /\ s.page = i \div 4 + 1
               /\ RatEq(s.x, ClaimedQuadrantOrigin(i)[1])
               /\ RatEq(s.y, ClaimedQuadrantOrigin(i)[2])
               /\ RatEq(s.width, HalfWidth)
               /\ RatEq(s.height, HalfHeight)
               /\ s.numCenterLines = calls[j]

C2_Witness ==
    /\ mode = "quadrant"
    /\ Len(sections) = 6
    /\ Len(pages) = 2
    /\ sections[4].page = 1
    /\ RatEq(sections[4].x, Num(408)) /\ RatEq(sections[4].y, Num(0))
    /\ sections[5].page = 2
    /\ RatEq(sections[5].x, Num(0)) /\ RatEq(sections[5].y, Num(527))

-----------------------------------------------------------------------------
(* C3 *)

\* C3: in full-page mode every drawNextSection call allocates exactly one page of
\* size W x H and draws the section into the region (0,0), W, H of that page: after n
\* calls there are n pages and page j carries the fold lines of the j-th count.
C3_FullPagePlacement ==
    mode = "full" =>
      /\ Len(pages) = Len(calls)
      /\ Len(sections) = Len(calls)
      /\ \A j \in 1..Len(sections) :
           LET s == sections[j]
           IN  /\ s.page = j
               /\ RatEq(s.x, Num(0)) /\ RatEq(s.y, Num(0))
               /\ RatEq(s.width, Num(pageWidth)) /\ RatEq(s.height, Num(pageHeight))
               /\ RatEq(pages[j].width, Num(pageWidth))
               /\ RatEq(pages[j].height, Num(pageHeight))
               /\ s.numCenterLines = calls[j]
               /\ Cardinality(FoldOps(j)) = calls[j]

C3_Witness ==
    /\ mode = "full"
    /\ pc = "done"
    /\ centerLines = << [minNumLines |-> 1, maxNumLines |-> 3, skipInterval |-> 1] >>
    /\ Len(pages) = 3
    /\ \A j \in 1..3 : Cardinality(FoldOps(j)) = j

-----------------------------------------------------------------------------
(* C4 *)

\* The quadrants of page p that a section was drawn into.
QuadrantsDrawn(p) == {<<sections[j].x, sections[j].y>> : j \in {i \in 1..Len(sections) : sections[i].page = p}}

\* C4: in quadrant mode, once the driver is done with a configuration of n sections,
\* the document has ceil(n/4) pages (none when n = 0), every page but the last has
\* four quadrants drawn and the last has n - 4*(ceil(n/4) - 1).
C4_QuadrantPageCount ==
    (mode = "quadrant" /\ pc = "done") =>
      LET n == Len(calls)
          np == (n + 3) \div 4
      IN  /\ Len(pages) = np
          /\ \A p \in 1..Len(pages) :
               Cardinality(QuadrantsDrawn(p)) = IF p < np THEN 4 ELSE n - 4 * (np - 1)

C4_Witness ==
    /\ mode = "quadrant"
    /\ pc = "done"
    /\ Len(calls) = 6
    /\ Len(pages) = 2
    /\ \A q \in QuadrantsDrawn(2) : RatEq(q[2], Num(527))
    /\ \E q \in QuadrantsDrawn(2) : RatEq(q[1], Num(0))
    /\ \E q \in QuadrantsDrawn(2) : RatEq(q[1], Num(408))

-----------------------------------------------------------------------------
(* C5 *)

\* x = x0 + (k+1) * width / (n+1), by cross-multiplication.
AtClaimedX(x, x0, width, n, k) ==
    x[1] * (x0[2] * width[2] * (n + 1))
      = x[2] * (x0[1] * width[2] * (n + 1) + (k + 1) * width[1] * x0[2])

\* C5: the line with index k of a section with origin (x0, y0), width W and count N
\* is the vertical segment at x0 + (k+1) * W/(N+1) from y0 to y0 + height, and it lies
\* strictly between the section's left edge x0 and right edge x0 + W.
C5_LinePositions ==
    \A j \in 1..Len(sections) :
      LET s == sections[j]
      IN  \A k \in 0..(s.numCenterLines - 1) :
            /\ s.from + 1 + k <= Len(pages[s.page].ops)
            /\ LET l == SectionLine(j, k)
               IN  /\ AtClaimedX(l.start[1], s.x, s.width, s.numCenterLines, k)
                   /\ RatEq(l.end[1], l.start[1])
                   /\ RatEq(l.start[2], s.y)
                   /\ l.end[2][1] * s.y[2] * s.height[2]
                        = l.end[2][2] * (s.y[1] * s.height[2] + s.height[1] * s.y[2])
                   /\ RatLess(s.x, l.start[1])
                   /\ l.start[1][1] * s.x[2] * s.width[2]
                        < l.start[1][2] * (s.x[1] * s.width[2] + s.width[1] * s.x[2])

C5_Witness ==
    \E j \in 1..Len(sections) :
      /\ sections[j].numCenterLines = 3
      /\ RatEq(sections[j].x, Num(408))
      /\ RatEq(SectionLine(j, 0).start[1], Num(510))
      /\ RatEq(SectionLine(j, 2).start[1], Num(714))

-----------------------------------------------------------------------------
(* C6 *)

\* C6: a section with count N issues exactly N fold-line draw calls, in increasing
\* index order (left to right), the one at index k dash-dot [4,2,1,2] when k is even and
\* dashed [4,1] when k is odd.
C6_CountAndStyle ==
    \A j \in 1..Len(sections) :
      LET s == sections[j]
      IN  /\ SectionEnd(j) - s.from = s.numCenterLines
          /\ \A k \in 0..(s.numCenterLines - 1) :
               /\ SectionLine(j, k).dashArray = IF k % 2 = 0 THEN <<4, 2, 1, 2>> ELSE <<4, 1>>
               /\ SectionLine(j, k).thickness = 0
               /\ k > 0 =>
                    LET a == SectionLine(j, k - 1).start[1]
                        b == SectionLine(j, k).start[1]
                    IN  a[1] * b[2] < b[1] * a[2]

C6_Witness ==
    \E j \in 1..Len(sections) :
      /\ sections[j].numCenterLines = 3
      /\ SectionEnd(j) - sections[j].from = 3
      /\ SectionLine(j, 0).dashArray = <<4, 2, 1, 2>>
      /\ SectionLine(j, 1).dashArray = <<4, 1>>
      /\ SectionLine(j, 2).dashArray = <<4, 2, 1, 2>>

-----------------------------------------------------------------------------
(* C7 *)

\* C7 as amended: a configuration in which every range entry has min > max or
\* skipInterval >= 1 is expanded to the end, and the driver reaches the save.
C7_TerminatesWhenRangesEnd == AllRangesEnd ~> (pc = "done")

C7_Witness ==
    /\ pc = "done"
    /\ Len(calls) >= 3
    /\ \E i \in 1..Len(centerLines) :
         /\ ~IsFixed(centerLines[i])
         /\ centerLines[i].minNumLines < centerLines[i].maxNumLines
         /\ centerLines[i].skipInterval = 2

\* C7 as stated, for any skipInterval, in the form a finite run refutes: the inner loop
\* ends only when numCenterLines exceeds maxNumLines, so for it to end whatever the
\* configuration every iteration has to bring numCenterLines closer to that.
C7_EveryIterationAdvances ==
    [][(pc = "range" /\ pc' = "range" /\ Len(calls') = Len(calls) + 1)
         => numCenterLines' > numCenterLines]_vars

-----------------------------------------------------------------------------
(* C8 *)

ClaimedCutCount == IF mode = "quadrant" THEN 6 ELSE 5

VerticalCuts(p) == {k \in CutOps(p) : RatEq(pages[p].ops[k].start[1], pages[p].ops[k].end[1])}

HorizontalCuts(p) == {k \in CutOps(p) : RatEq(pages[p].ops[k].start[2], pages[p].ops[k].end[2])}

\* C8: on every page the cut lines are exactly the first draw calls (six in quadrant
\* mode: left, right, top, bottom, vertical centre, horizontal centre; five in full-page
\* mode: no vertical centre), each drawn once, and every fold line comes after them.
C8_BordersFirst ==
    \A p \in 1..Len(pages) :
      LET ops == pages[p].ops
      IN  /\ CutOps(p) = 1..ClaimedCutCount
          /\ Cardinality({ops[k] : k \in CutOps(p)}) = ClaimedCutCount
          /\ Cardinality(HorizontalCuts(p)) = 3
          /\ Cardinality(VerticalCuts(p)) = ClaimedCutCount - 3
          /\ \E k \in HorizontalCuts(p) : RatEq(ops[k].start[2], HalfHeight)
          /\ (mode = "quadrant") <=>
               (\E k \in VerticalCuts(p) : RatEq(ops[k].start[1], HalfWidth))

C8_Witness ==
    /\ mode = "quadrant"
    /\ Len(pages) = 2
    /\ Cardinality(FoldOps(1)) >= 4
    /\ Cardinality(FoldOps(2)) >= 2

-----------------------------------------------------------------------------
(* C9 *)

\* C9: neither Error is ever thrown: every drawNextSection call reaches drawSection
\* with a page that exists, and the switch always finds one of its four cases.
C9_NoFatalError ==
    /\ error = "none"
    /\ pc # "failed"
    /\ Len(sections) = Len(calls)
    /\ \A j \in 1..Len(sections) : sections[j].page \in 1..Len(pages)
    /\ QuadrantCase(currentSectionIndex) \in 0..3

C9_Witness ==
    /\ mode = "quadrant"
    /\ pc = "done"
    /\ Len(sections) = 5
    /\ currentPage = 2

-----------------------------------------------------------------------------
(* C10 *)

\* What C10 says of a step apart from currentSectionIndex: pages are only added, only
\* the most recently allocated page is drawn on, and a section's fold lines go there.
FrameStep ==
    /\ Len(pages') >= Len(pages)
    /\ \A p \in 1..Len(pages) : p < Len(pages') => pages'[p] = pages[p]
    /\ Len(sections') \in {Len(sections), Len(sections) + 1}
    /\ Len(sections') = Len(sections) + 1 =>
         /\ sections'[Len(sections')].page = Len(pages')
         /\ SubSeq(sections', 1, Len(sections)) = sections
    /\ Len(sections') = Len(sections) => pages' = pages

NoRegionTwice ==
    \A i, j \in 1..Len(sections) :
      (/\ sections[i].page = sections[j].page
       /\ RatEq(sections[i].x, sections[j].x)
       /\ RatEq(sections[i].y, sections[j].y)) => i = j

\* C10 as amended: the frame and no-overlap parts as stated; currentSectionIndex grows
\* by exactly 1 per drawn section in the quadrant variant, and is never changed (stays
\* 0) in the full-page variant.
C10_Frame ==
    /\ []NoRegionTwice
    /\ [][/\ FrameStep
          /\ currentSectionIndex' =
               IF mode = "quadrant"
                 THEN currentSectionIndex + (Len(sections') - Len(sections))
                 ELSE 0]_vars

C10_Witness ==
    /\ mode = "full"
    /\ Len(sections) = 3
    /\ Len(pages) = 3
    /\ currentSectionIndex = 0

\* C10 as stated: currentSectionIndex starts at 0 and grows by exactly 1 per drawn
\* section, so it always equals the number of sections drawn.
C10_IndexCountsSections == currentSectionIndex = Len(sections)

====
